---- MODULE Spec2Model ----
(***************************************************************************)
(* Henhouse monitor (src/main.py): main() loads the YOLO model once,       *)
(* registers two MQTT sensors, then loops forever: load an image, run      *)
(* perform_detection (inference, counting, publication), give a GC hint    *)
(* every tenth cycle, sleep.  The environment decides which library call   *)
(* raises and when an interrupt (KeyboardInterrupt) is delivered.          *)
(***************************************************************************)
EXTENDS Integers, Sequences, FiniteSets, TLC

\* ------------------------------------------------------------------ bounds
\* Iterations of `while True` explored (the loop itself is unbounded).
MaxCycles == 11
\* Longest sequence of boxes one inference result carries.
MaxBoxes == 2

\* --------------------------------------------------------- program constants
\* `if cycle_count % 10 == 0`
GcEvery == 10

VARIABLES
    pc,            \* position of main()
    model,         \* local `model` of main(): "None" or "YOLO"
    names,         \* result.names of the loaded model: class id -> class name
    mqtt_sensors,  \* local `mqtt_sensors` of main(): "None" or "sensors"
    cycle_count,   \* local `cycle_count` of main()
    image,         \* local `image` of main(): "None" or "image"
    boxes,         \* result.boxes of the current cycle: sequence of class ids
    counts,        \* local `counts` of perform_detection
    returned,      \* what perform_detection returned in the current cycle
    calls,         \* set_state calls of the current cycle, in order
    log,           \* log records emitted since the current cycle began
    gcCollected,   \* gc.collect() was called in the current cycle
    flushed,       \* the handlers were flushed (lines 241-242)
    interruptAt,   \* where the interrupt was delivered ("none" if not yet)
    faults,        \* library calls that raised in the current cycle
    completed,     \* cycles that ran load_image and perform_detection to the end
    modelLoads,    \* calls of load_model()
    setupAttempts, \* calls of setup_mqtt_sensors()
    setupFailed,   \* setup_mqtt_sensors() raised
    imagesRequested \* load_image() was ever called

vars == <<pc, model, names, mqtt_sensors, cycle_count, image, boxes, counts,
          returned, calls, log, gcCollected, flushed, interruptAt, faults,
          completed, modelLoads, setupAttempts, setupFailed, imagesRequested>>

\* ------------------------------------------------------------------ helpers
Range(f) == {f[x] : x \in DOMAIN f}

\* A names table as the library builds it: ids 0 .. n-1.
NamesOf(s) == [i \in 0..(Len(s) - 1) |-> s[i + 1]]

\* The class-name tables of the models explored.
ModelNames ==
    { NamesOf(<<"egg", "chicken">>),
      NamesOf(<<"chicken", "rooster", "egg">>),
      NamesOf(<<"Egg", "chicken">>),
      NamesOf(<<"egg">>) }

NoNames == NamesOf(<<>>)
NoCounts == [n \in {} |-> 0]

\* Class ids a box may carry: the known ones and one the table lacks
\* (names[class_id] then raises KeyError inside the counting loop).
BoxIds(nm) == 0..Cardinality(DOMAIN nm)

RECURSIVE SeqsUpTo(_, _)
SeqsUpTo(S, n) ==
    IF n = 0 THEN {<<>>}
    ELSE LET shorter == SeqsUpTo(S, n - 1)
         IN shorter \cup {Append(s, x) : s \in {t \in shorter : Len(t) = n - 1}, x \in S}

Rec(level, msg) == [level |-> level, msg |-> msg]

NumLevel(l, level) == Cardinality({i \in DOMAIN l : l[i].level = level})

\* ------------------------------------------------------------ pure functions
\* counts = {name: 0 for name in result.names.values()}
InitialCounts(nm) == [n \in Range(nm) |-> 0]

\* counts[class_name] += 1
IncCountNoOp(c, name) == c
IncCount(c, name) == [c EXCEPT ![name] = @ + 1]

\* for box in result.boxes: ... ; raised = names[class_id] failed at some box
RECURSIVE CountBoxes(_, _, _)
CountBoxes(nm, bs, c) ==
    IF bs = <<>> THEN [raised |-> FALSE, counts |-> c]
    ELSE IF Head(bs) \notin DOMAIN nm THEN [raised |-> TRUE, counts |-> c]
    ELSE CountBoxes(nm, Tail(bs), IncCount(c, nm[Head(bs)]))

\* zero_counts = {"egg": 0, "chicken": 0}
zero_counts_stale == counts
zero_counts == [egg |-> 0, chicken |-> 0]

\* if cycle_count % 10 == 0
GcDueOffByOne(c) == (c + 1) % GcEvery = 0
GcDue(c) == c % GcEvery = 0

\* if mqtt_sensors:
FallbackGuardNever(s) == FALSE
FallbackGuard(s) == s # "None"

\* logging.error(f"Failed to load image: {e}") in load_image before `raise`
LoadImageFailLogNone == <<>>
LoadImageFailLog == <<Rec("error", "Failed to load image")>>

\* except Exception in main's loop: log twice, fall through to the sleep
CycleExceptLog ==
    <<Rec("error", "Error in detection cycle"), Rec("info", "Continuing with next cycle...")>>
CycleExceptNextEscapes == "aborted"
CycleExceptNext == "sleep"

\* except Exception in main's model loading: log and `return`
LoadFailNextFallsThrough == "setup"
LoadFailNext == "done"

\* mqtt_sensors stays None when setup_mqtt_sensors() raises
SensorsAfterSetupFailureStale == "sensors"
SensorsAfterSetupFailure == "None"

\* publish_counts_to_mqtt's `except Exception` swallows; the caller goes on to
\* its return statement.  from = "try": called at line 155; "except": line 169.
PublishRaiseNextPropagates(from) == IF from = "try" THEN "detect_except" ELSE "gc"
PublishRaiseNext(from) == "gc"

\* ---------------------------------------------------------------------- Init
Init ==
    /\ pc = "load_model"
    /\ model = "None"
    /\ names = NoNames
    /\ mqtt_sensors = "None"
    /\ cycle_count = 0
    /\ image = "None"
    /\ boxes = <<>>
    /\ counts = NoCounts
    /\ returned = NoCounts
    /\ calls = <<>>
    /\ log = <<>>
    /\ gcCollected = FALSE
    /\ flushed = FALSE
    /\ interruptAt = "none"
    /\ faults = {}
    /\ completed = 0
    /\ modelLoads = 0
    /\ setupAttempts = 0
    /\ setupFailed = FALSE
    /\ imagesRequested = FALSE

\* ------------------------------------------------------------------- startup
\* main(), lines 184-193: load_model() then get_memory_usage(); either raising
\* is logged as a model failure and main() returns.
LoadModel ==
    /\ pc = "load_model"
    /\ modelLoads' = modelLoads + 1
    /\ \E outcome \in {"ok", "load_raises", "memory_raises"} :
         \/ /\ outcome = "ok"
            /\ \E nm \in ModelNames : names' = nm
            /\ model' = "YOLO"
            /\ faults' = faults
            /\ log' = log \o <<Rec("info", "Starting Henhouse Monitor"),
                               Rec("info", "Loading YOLO model..."),
                               Rec("info", "YOLO model loaded successfully"),
                               Rec("info", "Initial memory usage after model load")>>
            /\ pc' = "setup"
         \/ /\ outcome = "load_raises"
            /\ UNCHANGED <<names, model>>
            /\ faults' = faults \cup {"model"}
            /\ log' = log \o <<Rec("info", "Starting Henhouse Monitor"),
                               Rec("info", "Loading YOLO model..."),
                               Rec("error", "Failed to load YOLO model"),
                               Rec("error", "Failed to initialize YOLO model")>>
            /\ pc' = LoadFailNext
         \/ /\ outcome = "memory_raises"
            /\ \E nm \in ModelNames : names' = nm
            /\ model' = "YOLO"
            /\ faults' = faults \cup {"memory"}
            /\ log' = log \o <<Rec("info", "Starting Henhouse Monitor"),
                               Rec("info", "Loading YOLO model..."),
                               Rec("info", "YOLO model loaded successfully"),
                               Rec("error", "Failed to initialize YOLO model")>>
            /\ pc' = "done"
    /\ UNCHANGED <<mqtt_sensors, cycle_count, image, boxes, counts, returned, calls,
                   gcCollected, flushed, interruptAt, completed, setupAttempts,
                   setupFailed, imagesRequested>>

\* main(), lines 195-206: one attempt at setup_mqtt_sensors(); a failure is a
\* warning and the loop is entered without handles.
SetupSensors ==
    /\ pc = "setup"
    /\ setupAttempts' = setupAttempts + 1
    /\ \E ok \in BOOLEAN :
         IF ok
         THEN /\ mqtt_sensors' = "sensors"
              /\ setupFailed' = setupFailed
              /\ faults' = faults
              /\ log' = log \o <<Rec("info", "MQTT sensors initialized successfully"),
                                 Rec("info", "MQTT integration enabled"),
                                 Rec("info", "Starting continuous monitoring")>>
         ELSE /\ mqtt_sensors' = SensorsAfterSetupFailure
              /\ setupFailed' = TRUE
              /\ faults' = faults \cup {"setup"}
              /\ log' = log \o <<Rec("warning", "Failed to initialize MQTT sensors"),
                                 Rec("warning", "Continuing without MQTT integration"),
                                 Rec("info", "Starting continuous monitoring")>>
    /\ cycle_count' = 0
    /\ pc' = "cycle_begin"
    /\ UNCHANGED <<model, names, image, boxes, counts, returned, calls, gcCollected,
                   flushed, interruptAt, completed, modelLoads, imagesRequested>>

\* ---------------------------------------------------------------- the loop
\* lines 207-211: a new iteration; cycle_count += 1, get_memory_usage().
CycleBegin ==
    /\ pc = "cycle_begin"
    /\ cycle_count < MaxCycles
    /\ cycle_count' = cycle_count + 1
    /\ boxes' = <<>>
    /\ counts' = NoCounts
    /\ returned' = NoCounts
    /\ calls' = <<>>
    /\ gcCollected' = FALSE
    /\ \E ok \in BOOLEAN :
         IF ok
         THEN /\ log' = <<>>
              /\ faults' = {}
              /\ pc' = "load_image"
         ELSE /\ log' = CycleExceptLog
              /\ faults' = {"memory"}
              /\ pc' = CycleExceptNext
    /\ UNCHANGED <<model, names, mqtt_sensors, image, flushed, interruptAt, completed,
                   modelLoads, setupAttempts, setupFailed, imagesRequested>>

\* line 214 and load_image(), lines 105-123: a failure is logged in load_image,
\* re-raised, and logged again by the loop's handler.
LoadImage ==
    /\ pc = "load_image"
    /\ imagesRequested' = TRUE
    /\ \E ok \in BOOLEAN :
         IF ok
         THEN /\ image' = "image"
              /\ UNCHANGED <<log, faults>>
              /\ pc' = "predict"
         ELSE /\ image' = image
              /\ log' = log \o LoadImageFailLog \o CycleExceptLog
              /\ faults' = faults \cup {"image"}
              /\ pc' = CycleExceptNext
    /\ UNCHANGED <<model, names, mqtt_sensors, cycle_count, boxes, counts, returned,
                   calls, gcCollected, flushed, interruptAt, completed, modelLoads,
                   setupAttempts, setupFailed>>

\* perform_detection, lines 145-153: inference, then the counting loop.
Predict ==
    /\ pc = "predict"
    /\ \/ /\ boxes' = <<>>
          /\ counts' = NoCounts
          /\ faults' = faults \cup {"inference"}
          /\ pc' = "detect_except"
       \/ \E bs \in SeqsUpTo(BoxIds(names), MaxBoxes) :
            LET r == CountBoxes(names, bs, InitialCounts(names))
            IN /\ boxes' = bs
               /\ counts' = r.counts
               /\ faults' = IF r.raised THEN faults \cup {"counting"} ELSE faults
               /\ pc' = IF r.raised THEN "detect_except" ELSE "pub_eggs"
    /\ UNCHANGED <<model, names, mqtt_sensors, cycle_count, image, returned, calls, log,
                   gcCollected, flushed, interruptAt, completed, modelLoads,
                   setupAttempts, setupFailed, imagesRequested>>

\* perform_detection, lines 161-172: the except branch.
DetectExcept ==
    /\ pc = "detect_except"
    /\ log' = Append(log, Rec("error", "Detection failed"))
    /\ IF FallbackGuard(mqtt_sensors)
       THEN /\ pc' = "fb_eggs"
            /\ returned' = returned
       ELSE /\ pc' = "gc"
            /\ returned' = zero_counts
    /\ UNCHANGED <<model, names, mqtt_sensors, cycle_count, image, boxes, counts, calls,
                   gcCollected, flushed, interruptAt, faults, completed, modelLoads,
                   setupAttempts, setupFailed, imagesRequested>>

\* The counts publish_counts_to_mqtt is called with.
PubArg(from) == IF from = "try" THEN counts ELSE zero_counts

\* perform_detection returns (line 159 or 172) unless the exception travels on.
Leave(from, next) ==
    /\ pc' = next
    /\ returned' = IF next = "gc" THEN PubArg(from) ELSE returned

PublishFailed(from) ==
    /\ log' = Append(log, Rec("error", "Failed to publish to MQTT"))
    /\ faults' = faults \cup {"publish"}
    /\ Leave(from, PublishRaiseNext(from))

\* publish_counts_to_mqtt, line 98: sensors["eggs"].set_state(counts["egg"]).
PublishEggs(from) ==
    /\ pc = IF from = "try" THEN "pub_eggs" ELSE "fb_eggs"
    /\ IF mqtt_sensors = "None" \/ "egg" \notin DOMAIN PubArg(from)
       THEN /\ calls' = calls
            /\ PublishFailed(from)
       ELSE \E ok \in BOOLEAN :
              /\ calls' = Append(calls, [sensor |-> "eggs", value |-> PubArg(from)["egg"],
                                         raised |-> ~ok])
              /\ IF ok
                 THEN /\ pc' = IF from = "try" THEN "pub_chickens" ELSE "fb_chickens"
                      /\ UNCHANGED <<log, faults, returned>>
                 ELSE PublishFailed(from)
    /\ UNCHANGED <<model, names, mqtt_sensors, cycle_count, image, boxes, counts,
                   gcCollected, flushed, interruptAt, completed, modelLoads,
                   setupAttempts, setupFailed, imagesRequested>>

\* publish_counts_to_mqtt, lines 99-100.
PublishChickens(from) ==
    /\ pc = IF from = "try" THEN "pub_chickens" ELSE "fb_chickens"
    /\ IF "chicken" \notin DOMAIN PubArg(from)
       THEN /\ calls' = calls
            /\ PublishFailed(from)
       ELSE \E ok \in BOOLEAN :
              /\ calls' = Append(calls, [sensor |-> "chickens",
                                         value |-> PubArg(from)["chicken"],
                                         raised |-> ~ok])
              /\ IF ok
                 THEN /\ log' = Append(log, Rec("info", "Published to MQTT"))
                      /\ faults' = faults
                      /\ Leave(from, "gc")
                 ELSE PublishFailed(from)
    /\ UNCHANGED <<model, names, mqtt_sensors, cycle_count, image, boxes, counts,
                   gcCollected, flushed, interruptAt, completed, modelLoads,
                   setupAttempts, setupFailed, imagesRequested>>

\* lines 219-226: del image; every tenth cycle gc.collect() and the memory line.
GcStep ==
    /\ pc = "gc"
    /\ image' = "None"
    /\ completed' = completed + 1
    /\ IF GcDue(cycle_count)
       THEN /\ gcCollected' = TRUE
            /\ \E ok \in BOOLEAN :
                 IF ok
                 THEN /\ log' = Append(log, Rec("info", "Memory after GC"))
                      /\ faults' = faults
                      /\ pc' = "sleep"
                 ELSE /\ log' = log \o CycleExceptLog
                      /\ faults' = faults \cup {"gc_memory"}
                      /\ pc' = CycleExceptNext
       ELSE /\ UNCHANGED <<gcCollected, log, faults>>
            /\ pc' = "sleep"
    /\ UNCHANGED <<model, names, mqtt_sensors, cycle_count, boxes, counts, returned,
                   calls, flushed, interruptAt, modelLoads, setupAttempts, setupFailed,
                   imagesRequested>>

\* lines 236-237: time.sleep(DETECTION_INTERVAL) returns; back to `while True`.
Sleep ==
    /\ pc = "sleep"
    /\ pc' = "cycle_begin"
    /\ UNCHANGED <<model, names, mqtt_sensors, cycle_count, image, boxes, counts,
                   returned, calls, log, gcCollected, flushed, interruptAt, faults,
                   completed, modelLoads, setupAttempts, setupFailed, imagesRequested>>

\* Positions inside the loop's try block (lines 208-226); at "cycle_begin" the
\* next statement to run is the first of the try block.  KeyboardInterrupt is
\* no Exception, so the handlers of load_image, perform_detection and
\* publish_counts_to_mqtt let it pass up to line 228.
TryPcs == {"cycle_begin", "load_image", "predict", "detect_except", "pub_eggs",
           "pub_chickens", "fb_eggs", "fb_chickens", "gc"}

InterruptKind(p) ==
    IF p \in TryPcs THEN "cycle" ELSE IF p = "sleep" THEN "sleep" ELSE "startup"

\* An interrupt is delivered (one per run).  Inside the try block lines 228-230
\* log and break;
\* anywhere else (startup, the sleep of line 237) nothing catches it and it
\* leaves main().
Interrupt ==
    /\ interruptAt = "none"
    /\ pc \in TryPcs \cup {"sleep", "load_model", "setup"}
    /\ interruptAt' = InterruptKind(pc)
    /\ IF pc \in TryPcs
       THEN /\ log' = Append(log, Rec("info", "Received interrupt signal, shutting down..."))
            /\ pc' = "shutdown"
       ELSE /\ log' = log
            /\ pc' = "aborted"
    /\ UNCHANGED <<model, names, mqtt_sensors, cycle_count, image, boxes, counts,
                   returned, calls, gcCollected, flushed, faults, completed, modelLoads,
                   setupAttempts, setupFailed, imagesRequested>>

\* lines 239-242: the shutdown message, then every handler is flushed.
Shutdown ==
    /\ pc = "shutdown"
    /\ log' = Append(log, Rec("info", "Henhouse Monitor shutdown completed"))
    /\ flushed' = TRUE
    /\ pc' = "done"
    /\ UNCHANGED <<model, names, mqtt_sensors, cycle_count, image, boxes, counts,
                   returned, calls, gcCollected, interruptAt, faults, completed,
                   modelLoads, setupAttempts, setupFailed, imagesRequested>>

PublishTryEggs == PublishEggs("try")
PublishTryChickens == PublishChickens("try")
PublishFallbackEggs == PublishEggs("except")
PublishFallbackChickens == PublishChickens("except")

\* Every step the program itself takes.
Step ==
    \/ LoadModel
    \/ SetupSensors
    \/ CycleBegin
    \/ LoadImage
    \/ Predict
    \/ DetectExcept
    \/ PublishTryEggs
    \/ PublishTryChickens
    \/ PublishFallbackEggs
    \/ PublishFallbackChickens
    \/ GcStep
    \/ Sleep
    \/ Shutdown

Next == Step \/ Interrupt

Spec == Init /\ [][Next]_vars

\* The interpreter keeps running main() and time.sleep returns.
FairSpec == Spec /\ WF_vars(Step)

\* ------------------------------------------------------- notions the claims use
LoopPcs == TryPcs \cup {"sleep"}
LoopEntered == setupAttempts > 0
Ended == pc \in {"done", "aborted"}
HasLog(msg) == \E i \in DOMAIN log : log[i].msg = msg
\* The current cycle was skipped before perform_detection ran.
Skipped == faults \cap {"memory", "image"} # {}
\* The try block of perform_detection raised in the current cycle.
DetectionFailed == faults \cap {"inference", "counting"} # {}
\* Boxes of the current result whose class id resolves to `name`.
NumNamed(name) ==
    Cardinality({i \in DOMAIN boxes : boxes[i] \in DOMAIN names /\ names[boxes[i]] = name})
Call(sensor, value, raised) == [sensor |-> sensor, value |-> value, raised |-> raised]
CallsOn(sensor) == {i \in DOMAIN calls : calls[i].sensor = sensor}
\* publish_counts_to_mqtt was entered with zero counts and reached set_state.
ZeroPublishAttempted ==
    /\ calls # <<>>
    /\ calls[1].sensor = "eggs"
    /\ \A i \in DOMAIN calls : calls[i].value = 0

\* ----------------------------------------------------------------------- C1
\* C1 (as claimed): an interrupt delivered while main() is in the inter-cycle
\* sleep makes the loop exit through the shutdown path, and main() ends only
\* after the shutdown message was logged and the handlers were flushed.
C1_SleepInterruptShutsDownGracefully ==
    interruptAt = "sleep" =>
        /\ pc \in {"shutdown", "done"}
        /\ pc = "done" => (HasLog("Henhouse Monitor shutdown completed") /\ flushed)

\* ----------------------------------------------------------------------- C2
\* C2 (as claimed): a cycle whose load_image() failed stays in the loop (sleep,
\* then the loop head) and holds exactly one error log record.
C2_ImageFailureLoggedOnce ==
    ("image" \in faults /\ interruptAt = "none") =>
        /\ pc \in {"sleep", "cycle_begin"}
        /\ NumLevel(log, "error") = 1

\* C2 (amended): a cycle whose load_image() failed goes straight to the sleep
\* with exactly two error records (load_image's and the loop handler's) and no
\* publication; from the sleep the only step, short of an interrupt, is back to
\* the loop head, where the next cycle can start.
C2_ImageFailureLoggedTwiceLoopContinues ==
    /\ []( ("image" \in faults /\ interruptAt = "none") =>
             /\ pc \in {"sleep", "cycle_begin"}
             /\ NumLevel(log, "error") = 2
             /\ HasLog("Failed to load image") /\ HasLog("Error in detection cycle")
             /\ calls = <<>> )
    /\ [][ (pc = "load_image" /\ "image" \in faults') => pc' = "sleep" ]_vars
    /\ [][ (pc = "sleep" /\ "image" \in faults /\ interruptAt' = "none")
             => (pc' = "cycle_begin" /\ cycle_count' = cycle_count) ]_vars
    /\ [][ (pc = "cycle_begin" /\ "image" \in faults /\ interruptAt' = "none")
             => (cycle_count' = cycle_count + 1 /\ "image" \notin faults') ]_vars

C2_Witness ==
    /\ pc = "sleep"
    /\ faults = {"image"}
    /\ NumLevel(log, "error") = 2
    /\ cycle_count = 2

\* ----------------------------------------------------------------------- C3
\* C3 (as claimed): the GC hint happens exactly in the cycles that are the
\* 10th, 20th, ... completed one, and the memory line only after a hint.
C3_GcOnEveryTenthCompletedCycle ==
    pc = "sleep" =>
        /\ gcCollected <=> (~Skipped /\ completed % GcEvery = 0)
        /\ HasLog("Memory after GC") => gcCollected

\* C3 (amended): the GC hint happens exactly in the iterations whose
\* cycle_count, which counts skipped iterations too, is a multiple of 10 and
\* which were not skipped; the memory line follows the hint unless the memory
\* reading itself raised.
C3_GcOnEveryTenthIteration ==
    pc = "sleep" =>
        /\ gcCollected <=> (~Skipped /\ cycle_count % GcEvery = 0)
        /\ HasLog("Memory after GC") <=> (gcCollected /\ "gc_memory" \notin faults)

C3_Witness ==
    /\ pc = "sleep"
    /\ cycle_count = GcEvery
    /\ completed < cycle_count
    /\ gcCollected
    /\ HasLog("Memory after GC")

C5_DetectionFailureYieldsZeroFallback ==
    (DetectionFailed /\ interruptAt = "none") =>
        /\ pc \in {"detect_except", "fb_eggs", "fb_chickens", "gc", "sleep", "cycle_begin"}
        /\ HasLog("Error in detection cycle") => "gc_memory" \in faults
        /\ pc \in {"gc", "sleep", "cycle_begin"} =>
             /\ returned = [egg |-> 0, chicken |-> 0]
             /\ DOMAIN returned = {"egg", "chicken"}
             /\ mqtt_sensors # "None" => ZeroPublishAttempted
        /\ \A i \in DOMAIN calls : calls[i].value = 0

C5_Witness ==
    /\ pc = "gc"
    /\ "counting" \in faults
    /\ \E n \in DOMAIN counts : counts[n] >= 1
    /\ returned = [egg |-> 0, chicken |-> 0]
    /\ calls = <<Call("eggs", 0, FALSE), Call("chickens", 0, FALSE)>>

\* ----------------------------------------------------------------------- C6
\* C6: after setup_mqtt_sensors() failed the handles stay None, no set_state
\* call is ever made, the publish step returns to perform_detection's return
\* statement, and short of an interrupt main() never ends: every sleep is
\* followed by the loop head.
C6_NoHandlesNoPublishNoEscape ==
    /\ []( setupFailed =>
             /\ mqtt_sensors = "None"
             /\ calls = <<>>
             /\ (Ended => interruptAt # "none") )
    /\ [][ (setupFailed /\ pc = "pub_eggs" /\ interruptAt' = "none")
             => (pc' = "gc" /\ returned' = counts) ]_vars
    /\ [][ (setupFailed /\ pc = "sleep" /\ interruptAt' = "none")
             => pc' = "cycle_begin" ]_vars

C6_Witness ==
    /\ setupFailed
    /\ pc = "sleep"
    /\ cycle_count = 2
    /\ DetectionFailed
    /\ calls = <<>>

\* ----------------------------------------------------------------------- C7
\* C7 (as claimed): with handles, a cycle that failed in image sourcing or in
\* detection has attempted the zero publish by the time the loop sleeps.
C7_EveryFailedCycleAttemptsZeroPublish ==
    (pc = "sleep" /\ mqtt_sensors # "None" /\ ("image" \in faults \/ DetectionFailed))
        => ZeroPublishAttempted

\* C7 (amended): with handles, a cycle whose detection raised inside
\* perform_detection has attempted the zero publish by the time the loop
\* sleeps; a cycle whose image sourcing raised makes no publish attempt.
C7_DetectionFailureAttemptsZeroPublish ==
    /\ (pc \in {"gc", "sleep"} /\ mqtt_sensors # "None" /\ DetectionFailed)
          => ZeroPublishAttempted
    /\ "image" \in faults => calls = <<>>

C7_Witness ==
    /\ pc = "sleep"
    /\ mqtt_sensors # "None"
    /\ "inference" \in faults
    /\ ZeroPublishAttempted

\* ----------------------------------------------------------------------- C8
\* C8: once the loop is entered main() ends only through an interrupt; the
\* counter moves only at the loop head and by exactly 1; short of an interrupt
\* every started cycle reaches the sleep and every sleep the next loop head.
C8_LoopNeverTerminatesWithoutInterrupt ==
    /\ []( (LoopEntered /\ Ended) => interruptAt # "none" )
    /\ [][ (cycle_count' # cycle_count)
             => (pc = "cycle_begin" /\ cycle_count' = cycle_count + 1) ]_vars
    /\ [][ (pc = "cycle_begin" /\ interruptAt' = "none")
             => cycle_count' = cycle_count + 1 ]_vars
    /\ [][ (pc = "sleep" /\ interruptAt' = "none") => pc' = "cycle_begin" ]_vars
    /\ (pc = "cycle_begin" /\ cycle_count < MaxCycles)
          ~> (pc = "sleep" \/ interruptAt # "none")
    /\ (pc = "sleep") ~> (pc = "cycle_begin" \/ interruptAt # "none")

C8_Witness ==
    /\ pc = "load_image"
    /\ cycle_count = 3
    /\ completed = 0
    /\ interruptAt = "none"

\* ----------------------------------------------------------------------- C9
\* C9: without a model main() has ended (or never started) with no sensor
\* registration, no image and no cycle; inside the loop there is a model,
\* loaded once, and registration was attempted once; the loop never changes
\* the model or the handles.
C9_StartupOrdering ==
    /\ []( model = "None" =>
             /\ pc \in {"load_model", "done", "aborted"}
             /\ setupAttempts = 0
             /\ ~imagesRequested
             /\ cycle_count = 0 )
    /\ []( pc \in LoopPcs =>
             /\ model = "YOLO"
             /\ modelLoads = 1
             /\ setupAttempts = 1 )
    /\ [][ (pc \in LoopPcs) =>
             (UNCHANGED <<model, names, mqtt_sensors, modelLoads, setupAttempts>>) ]_vars

C9_Witness ==
    /\ pc = "done"
    /\ "model" \in faults
    /\ model = "None"
    /\ modelLoads = 1
    /\ setupAttempts = 0

\* ---------------------------------------------------------------------- C10
\* C10: within a cycle each sensor gets at most one set_state call, and a call
\* on the chickens sensor comes after a call on the eggs sensor that did not
\* raise; so a cycle never carries both the real and the fallback publication.
C10_AtMostOneSetStatePerSensorEggsFirst ==
    /\ Cardinality(CallsOn("eggs")) <= 1
    /\ Cardinality(CallsOn("chickens")) <= 1
    /\ \A i \in CallsOn("chickens") :
         \E j \in CallsOn("eggs") : j < i /\ ~calls[j].raised

C10_Witness ==
    /\ pc = "sleep"
    /\ ~DetectionFailed
    /\ calls = <<Call("eggs", 2, TRUE)>>
    /\ returned = counts

====
